---- MODULE Spec2Model ----
(***************************************************************************)
(* A model of sgents/_atomic_tools.py: the workspace-confined file and     *)
(* process operations of AtomicTools.                                      *)
(*                                                                         *)
(* A text (str) is a sequence of tokens.  A token is one character         *)
(* ("a", "CR", "LF", "e_acute"), a path component name ("w", "wx", ...),    *)
(* the separator "/", or a fixed literal of the source written in ASCII    *)
(* (the source's literals are Chinese; each is quoted where it is          *)
(* defined).  A path is the sequence of its component names from the       *)
(* filesystem root; the filesystem maps each existing path to its node.    *)
(***************************************************************************)
EXTENDS Integers, Sequences, FiniteSets, TLC

VARIABLES
  config,   \* the Config held by the AtomicTools instance
  fs,       \* the filesystem: path -> node
  call,     \* the public operation called last, with its arguments
  ret,      \* how that call ended: a returned text, or an escaped exception
  exec,     \* execute_command's progress through subprocess.run
  procs,    \* the operating system's process table
  ncalls,   \* execute_command calls made so far
  threads,  \* the write_in_file calls of the caller's threads, and how far each has got
  manager,      \* the ConfigManager: its config, and how its last call ended
  config_file,  \* what is stored at the ConfigManager's config_path
  keys,         \* the credential store behind keyring, and how the last APIKeyManager call ended
  ui            \* the two console front-ends, each in its main loop

vars == <<config, fs, call, ret, exec, procs, ncalls, threads, manager, config_file, keys, ui>>

(***************************************************************************)
(* Bounds of the model.                                                    *)
(***************************************************************************)
MaxContentLen == 2
MaxFileSize == 2
MaxCalls == 2

(***************************************************************************)
(* Sequences.                                                              *)
(***************************************************************************)
Min(a, b) == IF a <= b THEN a ELSE b

Take(s, n) == SubSeq(s, 1, Min(n, Len(s)))

IsPrefix(p, s) == Len(p) <= Len(s) /\ SubSeq(s, 1, Len(p)) = p

StringsUpTo(A, n) == UNION {[1..k -> A] : k \in 0..n}

(***************************************************************************)
(* Paths and the filesystem.                                               *)
(***************************************************************************)
ROOT == <<>>

Parent(p) == IF p = ROOT THEN ROOT ELSE SubSeq(p, 1, Len(p) - 1)

Dir == [kind |-> "dir", data |-> <<>>, target |-> ROOT]

File(bytes) == [kind |-> "file", data |-> bytes, target |-> ROOT]

Link(to) == [kind |-> "link", data |-> <<>>, target |-> to]

\* os.lstat(p) succeeds
LExists(f, p) == p \in DOMAIN f

IsLink(f, p) == LExists(f, p) /\ f[p].kind = "link"

Put(f, p, node) == [q \in DOMAIN f \cup {p} |-> IF q = p THEN node ELSE f[q]]

Remove(f, p) == [q \in DOMAIN f \ {p} |-> f[q]]

Children(f, p) == {q \in DOMAIN f : q # ROOT /\ Parent(q) = p}

\* str(path)
RECURSIVE PathStr(_)
PathStr(p) ==
  IF p = ROOT THEN <<"/">>
  ELSE IF Len(p) = 1 THEN <<"/", p[1]>>
  ELSE PathStr(Parent(p)) \o <<"/", p[Len(p)]>>

\* The steps posixpath.realpath takes over the components still to resolve,
\* non-strict: "." is skipped, ".." steps to the parent of what is resolved so
\* far, a symbolic link is replaced by its target, any other name (existing or
\* not) is appended.  LOOP stands for a chain of links that does not end.
LinkFuel == 4

LOOP == <<"<symlink loop>">>

RECURSIVE JoinRealPath(_, _, _, _)
JoinRealPath(f, path, rest, fuel) ==
  IF rest = <<>> THEN path
  ELSE LET name == Head(rest)
           newpath == Append(path, name)
       IN  IF name = "." THEN JoinRealPath(f, path, Tail(rest), fuel)
           ELSE IF name = ".." THEN JoinRealPath(f, Parent(path), Tail(rest), fuel)
           ELSE IF ~IsLink(f, newpath) THEN JoinRealPath(f, newpath, Tail(rest), fuel)
           ELSE IF fuel = 0 THEN LOOP
           ELSE JoinRealPath(f, ROOT, f[newpath].target \o Tail(rest), fuel - 1)

\* Path.resolve() of an absolute path
Resolve(f, p) == JoinRealPath(f, ROOT, p, LinkFuel)

\* os.stat(p) succeeds / Path.exists(), is_dir(), is_file(): symbolic links followed
Stat(f, p) == LET r == Resolve(f, p) IN IF r # LOOP /\ LExists(f, r) THEN f[r] ELSE [kind |-> "none"]

Exists(f, p) == Stat(f, p).kind # "none"

IsDir(f, p) == Stat(f, p).kind = "dir"

IsFile(f, p) == Stat(f, p).kind = "file"

(***************************************************************************)
(* Exceptions and results.                                                 *)
(***************************************************************************)
Exc(type, msg) == [type |-> type, msg |-> msg]

\* isinstance(e, ValueError): UnicodeError is a subclass of ValueError
IsValueError(e) == e.type \in {"ValueError", "UnicodeEncodeError"}

Ok(f, value) == [ok |-> TRUE, fs |-> f, value |-> value]

Fail(f, e) == [ok |-> FALSE, fs |-> f, exc |-> e]

Return(text) == [kind |-> "return", value |-> text]

Raise(e) == [kind |-> "raise", value |-> e]

NoCall == [op |-> "none", path |-> <<>>, content |-> <<>>]

(***************************************************************************)
(* Config (the fields of the frozen dataclass).  workspace is what         *)
(* __post_init__ left: an absolute path whose directory exists.            *)
(***************************************************************************)
WORKSPACE == <<"w">>

SANDBOX_PATH == <<"s">>

Configs ==
  [workspace : {WORKSPACE}, sandbox_enabled : BOOLEAN, sandbox_path : {SANDBOX_PATH},
   command_timeout : {1}, max_output_length : {2}, max_file_size : {MaxFileSize},
   default_encoding : {"utf-8"}]

(***************************************************************************)
(* Text encoding: default_encoding is "utf-8".                             *)
(***************************************************************************)
Alphabet == {"a", "e_acute", "CR"}

Contents == StringsUpTo(Alphabet, MaxContentLen)

\* str.encode("utf-8") of one character
EncodeChar(c) ==
  CASE c = "a" -> <<97>>
    [] c = "CR" -> <<13>>
    [] c = "LF" -> <<10>>
    [] c = "e_acute" -> <<195, 169>>

RECURSIVE Encode(_)
Encode(s) == IF s = <<>> THEN <<>> ELSE EncodeChar(Head(s)) \o Encode(Tail(s))

\* bytes.decode("utf-8", errors="ignore"): a byte that starts no complete
\* character is dropped
RECURSIVE Decode(_)
Decode(b) ==
  IF b = <<>> THEN <<>>
  ELSE IF b[1] = 97 THEN <<"a">> \o Decode(Tail(b))
  ELSE IF b[1] = 13 THEN <<"CR">> \o Decode(Tail(b))
  ELSE IF b[1] = 10 THEN <<"LF">> \o Decode(Tail(b))
  ELSE IF b[1] = 195 /\ Len(b) >= 2 /\ b[2] = 169 THEN <<"e_acute">> \o Decode(Tail(Tail(b)))
  ELSE Decode(Tail(b))

\* Reading in text mode with newline=None (universal newlines): "\r\n" and a
\* lone "\r" are both read as "\n"
RECURSIVE TranslateNewlines(_)
TranslateNewlines(s) ==
  IF s = <<>> THEN <<>>
  ELSE IF Head(s) = "CR" /\ Len(s) >= 2 /\ s[2] = "LF" THEN <<"LF">> \o TranslateNewlines(Tail(Tail(s)))
  ELSE IF Head(s) = "CR" THEN <<"LF">> \o TranslateNewlines(Tail(s))
  ELSE <<Head(s)>> \o TranslateNewlines(Tail(s))

(***************************************************************************)
(* The literals of the source (Chinese in the source).                     *)
(***************************************************************************)
ERR == "error: "                                  \* "错误："
ILLEGAL_PATH == "illegal path access: "           \* "非法路径访问："
OUTSIDE == " (outside the workspace)"             \* " (超出工作区范围)"
MKDIR_FAILED == "create failed: "                 \* "创建失败："
WRITE_FAILED == "write failed: "                  \* "写入失败："
APPEND_FAILED == "append failed: "                \* "追加失败："
READ_FAILED == "read failed: "                    \* "读取失败："
LIST_FAILED == "list files failed: "              \* "列出文件失败："
TRUNCATED_100KB == "LF... (file too large, only the first 100KB shown)"  \* "\n... (文件过大，仅显示前 100KB 内容)"
DIR_EMPTY == "directory is empty."                \* "目录为空。"

(***************************************************************************)
(* _get_safe_path.                                                         *)
(***************************************************************************)
\* pathlib's parsing of a str: split at "/", empty and "." components dropped,
\* ".." kept; a leading "/" makes the path absolute
RECURSIVE Components(_)
Components(s) ==
  IF s = <<>> THEN <<>>
  ELSE IF Head(s) \in {"/", "."} THEN Components(Tail(s))
  ELSE <<Head(s)>> \o Components(Tail(s))

IsAbsolute(s) == s # <<>> /\ Head(s) = "/"

\* base / filename: an absolute filename replaces base
JoinPath(base, filename) ==
  IF IsAbsolute(filename) THEN Components(filename) ELSE base \o Components(filename)

\* The characters of a component name
NameChars(n) ==
  CASE n = "wx" -> <<"w", "x">>
    [] n = "Start.exe" -> <<"S", "t", "a", "r", "t", ".", "e", "x", "e">>
    [] OTHER -> <<n>>

RECURSIVE PathChars(_)
PathChars(p) ==
  IF p = ROOT THEN <<>> ELSE PathChars(Parent(p)) \o <<"/">> \o NameChars(p[Len(p)])

\* str(p).startswith(str(base)): not what the source does
StartsWith(p, base) == IsPrefix(PathChars(base), PathChars(p))

\* PurePath.relative_to succeeds: base's components are the first of p's
RelativeTo(p, base) == IsPrefix(base, p)

\* The target normalised without following symbolic links (os.path.abspath):
\* not what the source does
GetSafePathUnresolved(f, filename) ==
  LET target_path == JoinPath(config.workspace, filename)
      abs_target == JoinRealPath(<<>>, ROOT, target_path, LinkFuel)
      abs_workspace == Resolve(f, config.workspace)
  IN  IF ~RelativeTo(abs_target, abs_workspace)
        THEN Fail(f, Exc("ValueError", <<ILLEGAL_PATH>> \o filename \o <<OUTSIDE>>))
      ELSE Ok(f, abs_target)

GetSafePath(f, filename) ==
  LET target_path == JoinPath(config.workspace, filename)
      abs_target == Resolve(f, target_path)
      abs_workspace == Resolve(f, config.workspace)
  IN  IF abs_target = LOOP \/ abs_workspace = LOOP
        THEN Fail(f, Exc("RuntimeError", <<"Symlink loop">>))
      ELSE IF ~RelativeTo(abs_target, abs_workspace)
        THEN Fail(f, Exc("ValueError", <<ILLEGAL_PATH>> \o filename \o <<OUTSIDE>>))
      ELSE Ok(f, abs_target)

(***************************************************************************)
(* The operating system's calls.  fault: the call is refused               *)
(* (PermissionError), as the operating system may refuse any of them.      *)
(***************************************************************************)
\* An existing directory refused (exist_ok=False): not what the source does
RECURSIVE MkdirNoExistOk(_, _, _)
MkdirNoExistOk(f, p, fault) ==
  IF LExists(f, p)
    THEN Fail(f, Exc("FileExistsError", PathStr(p)))
  ELSE IF LExists(f, Parent(p))
    THEN IF ~IsDir(f, Parent(p)) THEN Fail(f, Exc("NotADirectoryError", PathStr(p)))
         ELSE IF fault THEN Fail(f, Exc("PermissionError", PathStr(p)))
         ELSE Ok(Put(f, p, Dir), p)
  ELSE LET up == MkdirNoExistOk(f, Parent(p), fault)
       IN  IF up.ok THEN Ok(Put(up.fs, p, Dir), p) ELSE up

\* Path.mkdir(parents=True, exist_ok=True)
RECURSIVE Mkdir(_, _, _)
Mkdir(f, p, fault) ==
  IF LExists(f, p)
    THEN IF IsDir(f, p) THEN Ok(f, p) ELSE Fail(f, Exc("FileExistsError", PathStr(p)))
  ELSE IF LExists(f, Parent(p))
    THEN IF ~IsDir(f, Parent(p)) THEN Fail(f, Exc("NotADirectoryError", PathStr(p)))
         ELSE IF fault THEN Fail(f, Exc("PermissionError", PathStr(p)))
         ELSE Ok(Put(f, p, Dir), p)
  ELSE LET up == Mkdir(f, Parent(p), fault)
       IN  IF up.ok THEN Ok(Put(up.fs, p, Dir), p) ELSE up

\* The file opened for appending whatever the mode: not what the source does
OpenWriteAppends(f, p, mode, content, fault) ==
  IF IsDir(f, p) THEN Fail(f, Exc("IsADirectoryError", PathStr(p)))
  ELSE IF fault THEN Fail(f, Exc("PermissionError", PathStr(p)))
  ELSE LET old == IF IsFile(f, p) THEN f[p].data ELSE <<>>
       IN  Ok(Put(f, p, File(old \o Encode(content))), p)

\* The file truncated whatever the mode: not what the source does
OpenWriteTruncates(f, p, mode, content, fault) ==
  IF IsDir(f, p) THEN Fail(f, Exc("IsADirectoryError", PathStr(p)))
  ELSE IF fault THEN Fail(f, Exc("PermissionError", PathStr(p)))
  ELSE Ok(Put(f, p, File(Encode(content))), p)

\* open(p, mode="w" or "a", encoding=...) and f.write(content): symbolic
\* links at p and above it are followed, and the value is the file opened
OpenWrite(f, p, mode, content, fault) ==
  LET r == Resolve(f, p)
  IN  IF r = LOOP THEN Fail(f, Exc("OSError", PathStr(p)))
      ELSE IF IsDir(f, r) THEN Fail(f, Exc("IsADirectoryError", PathStr(p)))
      ELSE IF ~IsDir(f, Parent(r)) THEN Fail(f, Exc("FileNotFoundError", PathStr(p)))
      ELSE IF fault THEN Fail(f, Exc("PermissionError", PathStr(p)))
      ELSE LET old == IF mode = "a" /\ IsFile(f, r) THEN f[r].data ELSE <<>>
           IN  Ok(Put(f, r, File(old \o Encode(content))), r)

\* TextIOWrapper.read(limit) of a file opened with mode="r", errors="ignore":
\* at most limit characters of the decoded, newline-translated text
ReadText(bytes, limit) == Take(TranslateNewlines(Decode(bytes)), limit)

(***************************************************************************)
(* The file operations, each up to its except clauses.                     *)
(***************************************************************************)
MakeNewDirBody(f, dir_name, fault) ==
  LET target_dir == GetSafePath(f, dir_name)
  IN  IF ~target_dir.ok THEN target_dir
      ELSE LET made == Mkdir(f, target_dir.value, fault)
           IN  IF ~made.ok THEN made
               ELSE Ok(made.fs, <<"directory ">> \o PathStr(target_dir.value) \o <<" created.">>)

WrittenText(p) == <<"file ">> \o PathStr(p) \o <<" written.">>      \* "文件 {target_file} 写入成功。"

AppendedText(p) == <<"appended to ">> \o PathStr(p) \o <<".">>      \* "已向 {target_file} 追加内容。"

\* write_in_file (mode "w") and append_to_file (mode "a") differ in the mode
\* and in the text returned
WriteBody(f, file_path, mode, content, fault) ==
  LET target_file == GetSafePath(f, file_path)
  IN  IF ~target_file.ok THEN target_file
      ELSE LET made == Mkdir(f, Parent(target_file.value), fault)
           IN  IF ~made.ok THEN made
               ELSE LET written == OpenWrite(made.fs, target_file.value, mode, content, fault)
                    IN  IF ~written.ok THEN written
                        ELSE Ok(written.fs, IF mode = "w" THEN WrittenText(target_file.value)
                                            ELSE AppendedText(target_file.value))

WriteInFileBody(f, file_path, content, fault) == WriteBody(f, file_path, "w", content, fault)

AppendToFileBody(f, file_path, content, fault) == WriteBody(f, file_path, "a", content, fault)

\* A missing file created by the open (mode "a+"), parents included: not what
\* the source does
ReadFileBodyCreating(f, file_path, fault) ==
  LET target_path == GetSafePath(f, file_path)
  IN  IF ~target_path.ok THEN target_path
      ELSE IF ~Exists(f, target_path.value)
        THEN LET made == Mkdir(f, Parent(target_path.value), fault)
             IN  IF ~made.ok THEN made ELSE Ok(Put(made.fs, target_path.value, File(<<>>)), <<>>)
      ELSE IF IsDir(f, target_path.value)
        THEN Ok(f, <<ERR>> \o file_path \o <<" is a directory, use list_files.">>)
      ELSE IF fault THEN Fail(f, Exc("PermissionError", PathStr(target_path.value)))
      ELSE LET file_size == Len(f[target_path.value].data)
               limit == config.max_file_size
               content == ReadText(f[target_path.value].data, limit)
           IN  Ok(f, IF file_size > limit THEN content \o <<TRUNCATED_100KB>> ELSE content)

ReadFileBody(f, file_path, fault) ==
  LET target_path == GetSafePath(f, file_path)
  IN  IF ~target_path.ok THEN target_path
      ELSE IF ~Exists(f, target_path.value)
        THEN Ok(f, <<ERR, "file ">> \o file_path \o <<" does not exist.">>)
      ELSE IF IsDir(f, target_path.value)
        THEN Ok(f, <<ERR>> \o file_path \o <<" is a directory, use list_files.">>)
      ELSE IF fault THEN Fail(f, Exc("PermissionError", PathStr(target_path.value)))
      ELSE LET file_size == Len(f[target_path.value].data)
               limit == config.max_file_size
               content == ReadText(f[target_path.value].data, limit)
           IN  Ok(f, IF file_size > limit THEN content \o <<TRUNCATED_100KB>> ELSE content)

\* One line of list_files for the entry at path item
ListLine(f, item) ==
  LET prefix == IF IsDir(f, item) THEN "[DIR] " ELSE "[FILE]"
      name == item[Len(item)]
  IN  IF IsFile(f, item)
        THEN <<prefix, " ", name, " (", ToString(Len(Stat(f, item).data)), " bytes)">>
        ELSE <<prefix, " ", name>>

\* "\n".join(lines)
RECURSIVE JoinLines(_)
JoinLines(lines) ==
  IF lines = <<>> THEN <<>>
  ELSE IF Len(lines) = 1 THEN lines[1]
  ELSE lines[1] \o <<"LF">> \o JoinLines(Tail(lines))

\* No test for an empty directory: not what the source does
ListFilesBodyNoEmptyTest(f, dir_name, items, fault) ==
  LET target_dir == GetSafePath(f, dir_name)
  IN  IF ~target_dir.ok THEN target_dir
      ELSE IF ~Exists(f, target_dir.value)
        THEN Ok(f, <<ERR, "directory ">> \o dir_name \o <<" does not exist.">>)
      ELSE IF ~IsDir(f, target_dir.value)
        THEN Fail(f, Exc("NotADirectoryError", PathStr(target_dir.value)))
      ELSE IF fault THEN Fail(f, Exc("PermissionError", PathStr(target_dir.value)))
      ELSE Ok(f, JoinLines([i \in 1..Len(items) |-> ListLine(f, items[i])]))

\* items: the entries in the order Path.iterdir() yields them
ListFilesBody(f, dir_name, items, fault) ==
  LET target_dir == GetSafePath(f, dir_name)
  IN  IF ~target_dir.ok THEN target_dir
      ELSE IF ~Exists(f, target_dir.value)
        THEN Ok(f, <<ERR, "directory ">> \o dir_name \o <<" does not exist.">>)
      ELSE IF ~IsDir(f, target_dir.value)
        THEN Fail(f, Exc("NotADirectoryError", PathStr(target_dir.value)))
      ELSE IF fault THEN Fail(f, Exc("PermissionError", PathStr(target_dir.value)))
      ELSE IF items = <<>> THEN Ok(f, <<DIR_EMPTY>>)
      ELSE Ok(f, JoinLines([i \in 1..Len(items) |-> ListLine(f, items[i])]))

\* The orders in which iterdir() may yield the entries of directory p
Enumerations(f, p) ==
  LET S == Children(f, p)
  IN  {s \in [1..Cardinality(S) -> S] : \A i, j \in 1..Cardinality(S) : i # j => s[i] # s[j]}

(***************************************************************************)
(* except ValueError as e: return "error: {e}"                             *)
(* except Exception as e: return "<operation> failed: {e}"                 *)
(***************************************************************************)
\* Only the first clause: not what the source does
CatchValueErrorOnly(r, failed) ==
  IF r.ok THEN Return(r.value)
  ELSE IF IsValueError(r.exc) THEN Return(<<ERR>> \o r.exc.msg)
  ELSE Raise(r.exc)

Catch(r, failed) ==
  IF r.ok THEN Return(r.value)
  ELSE IF IsValueError(r.exc) THEN Return(<<ERR>> \o r.exc.msg)
  ELSE Return(<<failed, r.exc.type, ": ">> \o r.exc.msg)

(***************************************************************************)
(* _validate_package_name: PACKAGE_PATTERN.match(package_name), with       *)
(* PACKAGE_PATTERN = ^[a-zA-Z0-9_-]+(\[[a-zA-Z0-9_-]+\])?$                  *)
(* A package name is a sequence of characters.                             *)
(***************************************************************************)
\* The characters of [a-zA-Z0-9_-] that the model's names use
NameClass ==
  {"p", "k", "g", "u", "v", "i", "c", "o", "r", "n", "s", "t", "a", "d", "e", "l", "m", "f",
   "4", "_", "-"}

\* Python's "$" (no re.MULTILINE) matches at the end of the string and just
\* before a newline that is the string's last character; i is the position of
\* the next character to match
AtDollar(s, i) == i = Len(s) + 1 \/ (i = Len(s) /\ s[i] = "LF")

\* \[[a-zA-Z0-9_-]+\] matches s[i..j]
IsExtras(s, i, j) ==
  /\ s[i] = "["
  /\ s[j] = "]"
  /\ j >= i + 2
  /\ \A k \in (i + 1)..(j - 1) : s[k] \in NameClass

ValidatePackageName(package_name) ==
  LET s == package_name
  IN  \E i \in 2..(Len(s) + 1) :
        /\ \A k \in 1..(i - 1) : s[k] \in NameClass
        /\ \/ AtDollar(s, i)
           \/ \E j \in i..Len(s) : IsExtras(s, i, j) /\ AtDollar(s, j + 1)

(***************************************************************************)
(* execute_command.                                                        *)
(***************************************************************************)
INVALID_NAME == "invalid package name format: "   \* "无效的包名格式："
TIMED_OUT == "command timed out."                 \* "命令执行超时。"
RETURN_CODE == "return code: "                    \* "返回码："
STDOUT == "output:LF"                             \* "输出:\n"
STDERR == "errors:LF"                             \* "错误:\n"
STDOUT_CUT == "LF... (output too long, truncated)"         \* "\n... (输出过长，已截断)"
STDERR_CUT == "LF... (error output too long, truncated)"   \* "\n... (错误信息过长，已截断)"
UV_PIP_INSTALL == "uv pip install -q "

\* self._start_path, set by __init__
StartPath == Append(config.sandbox_path, "Start.exe")

\* The launcher prefixed whether or not it exists: not what the source does
RunCommandUnchecked(f, command) ==
  IF config.sandbox_enabled
    THEN <<"\"">> \o PathStr(StartPath) \o <<"\"", " ">> \o command
    ELSE command

\* run_command of execute_command
RunCommand(f, command) ==
  IF config.sandbox_enabled /\ Exists(f, StartPath)
    THEN <<"\"">> \o PathStr(StartPath) \o <<"\"", " ">> \o command
    ELSE command

\* The return code left out when there is output: not what the source does
FormatOutputCodeOnFailure(returncode, stdout, stderr) ==
  LET max == config.max_output_length
  IN  (IF stdout = <<>> /\ stderr = <<>> /\ returncode # 0
         THEN <<RETURN_CODE, ToString(returncode), "LF">> ELSE <<>>)
      \o (IF stdout # <<>>
            THEN <<STDOUT>> \o Take(stdout, max) \o <<"LF">>
                 \o (IF Len(stdout) > max THEN <<STDOUT_CUT>> ELSE <<>>)
            ELSE <<>>)
      \o (IF stderr # <<>>
            THEN <<STDERR>> \o Take(stderr, max)
                 \o (IF Len(stderr) > max THEN <<STDERR_CUT>> ELSE <<>>)
            ELSE <<>>)

\* One truncation test for both streams: not what the source does
FormatOutputSharedCut(returncode, stdout, stderr) ==
  LET max == config.max_output_length
      cut == Len(stdout) > max \/ Len(stderr) > max
  IN  <<RETURN_CODE, ToString(returncode), "LF">>
      \o (IF stdout # <<>>
            THEN <<STDOUT>> \o Take(stdout, max) \o <<"LF">>
                 \o (IF cut THEN <<STDOUT_CUT>> ELSE <<>>)
            ELSE <<>>)
      \o (IF stderr # <<>>
            THEN <<STDERR>> \o Take(stderr, max)
                 \o (IF cut THEN <<STDERR_CUT>> ELSE <<>>)
            ELSE <<>>)

\* The text execute_command builds from a CompletedProcess
FormatOutput(returncode, stdout, stderr) ==
  LET max == config.max_output_length
  IN  <<RETURN_CODE, ToString(returncode), "LF">>
      \o (IF stdout # <<>>
            THEN <<STDOUT>> \o Take(stdout, max) \o <<"LF">>
                 \o (IF Len(stdout) > max THEN <<STDOUT_CUT>> ELSE <<>>)
            ELSE <<>>)
      \o (IF stderr # <<>>
            THEN <<STDERR>> \o Take(stderr, max)
                 \o (IF Len(stderr) > max THEN <<STDERR_CUT>> ELSE <<>>)
            ELSE <<>>)

\* No CompletedProcess: subprocess.run has not returned one
NoResult == [completed |-> FALSE, returncode |-> 0, stdout |-> <<>>, stderr |-> <<>>]

\* The CompletedProcess subprocess.run returns
Completed(returncode, stdout, stderr) ==
  [completed |-> TRUE, returncode |-> returncode, stdout |-> stdout, stderr |-> stderr]

ExecIdle ==
  [pc |-> "idle", command |-> <<>>, run_command |-> <<>>, elapsed |-> 0, result |-> NoResult]

NoRet == [kind |-> "none", value |-> <<>>]

\* The shell that subprocess.run(run_command, shell=True) started for call n
Shell(n) == [call |-> n, role |-> "shell"]

\* A process the command started from that shell
Child(n) == [call |-> n, role |-> "child"]

(***************************************************************************)
(* sgents/_save_config.py: Python values, JSON documents and the           *)
(* ConfigManager.  A Python value carries its type; json.dump turns a      *)
(* value into a JSON document and json.load turns a document into a value. *)
(***************************************************************************)
PyInt(n) == [t |-> "int", n |-> n]

PyStr(s) == [t |-> "str", s |-> s]

PyBool(b) == [t |-> "bool", b |-> b]

PyNone == [t |-> "NoneType"]

PyList(items) == [t |-> "list", items |-> items]

PyTuple(items) == [t |-> "tuple", elements |-> items]

PySet(items) == [t |-> "set", members |-> items]

PyDict(d) == [t |-> "dict", d |-> d]

JNumber(n) == [j |-> "number", n |-> n]

JString(s) == [j |-> "string", s |-> s]

JBool(b) == [j |-> "boolean", b |-> b]

JNull == [j |-> "null"]

JArray(items) == [j |-> "array", items |-> items]

JObject(d) == [j |-> "object", d |-> d]

\* bool(v)
Truthy(v) ==
  CASE v.t = "int" -> v.n # 0
    [] v.t = "str" -> v.s # ""
    [] v.t = "bool" -> v.b
    [] v.t = "NoneType" -> FALSE
    [] v.t = "list" -> v.items # <<>>
    [] v.t = "tuple" -> v.elements # <<>>
    [] v.t = "set" -> v.members # <<>>
    [] v.t = "dict" -> DOMAIN v.d # {}

\* json.dump accepts v: a set is not JSON serializable
RECURSIVE Serializable(_)
Serializable(v) ==
  CASE v.t = "set" -> FALSE
    [] v.t = "dict" -> \A k \in DOMAIN v.d : Serializable(v.d[k])
    [] OTHER -> TRUE

\* The document json.dump writes for v: a tuple is written as an array, as a
\* list is
RECURSIVE ToJson(_)
ToJson(v) ==
  CASE v.t = "int" -> JNumber(v.n)
    [] v.t = "str" -> JString(v.s)
    [] v.t = "bool" -> JBool(v.b)
    [] v.t = "NoneType" -> JNull
    [] v.t = "list" -> JArray(v.items)
    [] v.t = "tuple" -> JArray(v.elements)
    [] v.t = "dict" -> JObject([k \in DOMAIN v.d |-> ToJson(v.d[k])])

\* The value json.load returns for a document: an array is read as a list
RECURSIVE FromJson(_)
FromJson(doc) ==
  CASE doc.j = "number" -> PyInt(doc.n)
    [] doc.j = "string" -> PyStr(doc.s)
    [] doc.j = "boolean" -> PyBool(doc.b)
    [] doc.j = "null" -> PyNone
    [] doc.j = "array" -> PyList(doc.items)
    [] doc.j = "object" -> PyDict([k \in DOMAIN doc.d |-> FromJson(doc.d[k])])

\* What config_path holds: nothing, a JSON document, text that is no JSON
\* document (a dump cut short, a hand edit gone wrong), or bytes that are not
\* UTF-8
NoFile == [kind |-> "absent"]

JsonFile(doc) == [kind |-> "json", doc |-> doc]

NotJson == [kind |-> "not json"]

NotUtf8 == [kind |-> "not utf-8"]

DEFAULT_CONFIG ==
  PyDict([k \in {"workspace", "sandbox_enabled", "sandbox_path", "command_timeout",
                 "max_output_length", "max_file_size", "default_encoding"} |->
    CASE k = "workspace" -> PyStr("./workspace")
      [] k = "sandbox_enabled" -> PyBool(TRUE)
      [] k = "sandbox_path" -> PyStr("D:\\sandboxieplus\\Sandboxie-Plus")
      [] k = "command_timeout" -> PyInt(60)
      [] k = "max_output_length" -> PyInt(10000)
      [] k = "max_file_size" -> PyInt(1024 * 100)
      [] k = "default_encoding" -> PyStr("utf-8")])

\* What a ConfigManager method leaves: the config, the file, and either the
\* value returned or the exception raised
Left(cfg, file, outcome) == [config |-> cfg, file |-> file, ret |-> outcome]

\* save(): the file is opened for writing and json.dump writes the config
\* into it; a value json.dump cannot write raises TypeError with the part
\* written so far left in the file
Save(cfg, file) ==
  IF Serializable(cfg)
    THEN Left(cfg, JsonFile(ToJson(cfg)), Return(PyNone))
    ELSE Left(cfg, NotJson, Raise(Exc("TypeError", <<"not JSON serializable">>)))

\* get(key, default): self.config.get(key, default)
Get(cfg, key, default) ==
  IF cfg.t # "dict" THEN Fail(cfg, Exc("AttributeError", <<"get">>))
  ELSE Ok(cfg, IF key \in DOMAIN cfg.d THEN cfg.d[key] ELSE default)

LoadBody(cfg, file) ==
  IF file.kind = "absent"
    THEN LET saved == Save(DEFAULT_CONFIG, file)
         IN  Left(saved.config, saved.file, Return(saved.config))
  ELSE IF file.kind = "not utf-8"
    THEN Left(cfg, file, Raise(Exc("UnicodeDecodeError", <<"invalid start byte">>)))
  ELSE IF file.kind = "not json"
    THEN LET saved == Save(DEFAULT_CONFIG, file)
         IN  Left(saved.config, saved.file, Return(saved.config))
  ELSE Left(FromJson(file.doc), file, Return(FromJson(file.doc)))

\* self.config[key] = value; self.save()
SetBody(cfg, file, key, value) ==
  IF cfg.t # "dict" THEN Left(cfg, file, Raise(Exc("TypeError", <<"item assignment">>)))
  ELSE Save(PyDict([k \in DOMAIN cfg.d \cup {key} |-> IF k = key THEN value ELSE cfg.d[k]]), file)

\* self.config.update(config_dict); self.save()
UpdateBody(cfg, file, config_dict) ==
  IF cfg.t # "dict" THEN Left(cfg, file, Raise(Exc("AttributeError", <<"update">>)))
  ELSE Save(PyDict([k \in DOMAIN cfg.d \cup DOMAIN config_dict |->
                      IF k \in DOMAIN config_dict THEN config_dict[k] ELSE cfg.d[k]]), file)

WORKSPACE_EMPTY == "workspace must not be empty"                    \* "workspace 不能为空"
SANDBOX_PATH_EMPTY == "sandbox_path must not be empty"              \* "sandbox_path 不能为空"
TIMEOUT_NOT_POSITIVE == "command_timeout must be greater than 0"    \* "command_timeout 必须大于 0"
OUTPUT_NOT_POSITIVE == "max_output_length must be greater than 0"   \* "max_output_length 必须大于 0"
FILE_SIZE_NOT_POSITIVE == "max_file_size must be greater than 0"    \* "max_file_size 必须大于 0"

\* validate(), the errors collected so far passed on from check to check.
\* v <= 0 raises TypeError between a str, None, a list or a tuple and an int;
\* False is 0 and True is 1
ValidateNumbers(cfg, errors, checks) ==
  LET RECURSIVE Go(_, _)
      Go(errs, rest) ==
        IF rest = <<>> THEN Return([valid |-> errs = <<>>, errors |-> errs])
        ELSE LET v == Get(cfg, rest[1].key, rest[1].default).value
                 not_positive == IF v.t = "int" THEN v.n <= 0 ELSE ~v.b
             IN  IF v.t \notin {"int", "bool"} THEN Raise(Exc("TypeError", <<"<=">>))
                 ELSE Go(IF not_positive THEN Append(errs, rest[1].error) ELSE errs, Tail(rest))
  IN  Go(errors, checks)

ValidateBody(cfg) ==
  IF cfg.t # "dict" THEN Raise(Get(cfg, "workspace", PyNone).exc)
  ELSE LET workspace == Get(cfg, "workspace", PyStr("./workspace")).value
           errors1 == IF ~Truthy(workspace) THEN <<WORKSPACE_EMPTY>> ELSE <<>>
           sandbox_path == Get(cfg, "sandbox_path", PyStr("")).value
           errors2 == IF Truthy(Get(cfg, "sandbox_enabled", PyBool(TRUE)).value) /\ ~Truthy(sandbox_path)
                        THEN Append(errors1, SANDBOX_PATH_EMPTY) ELSE errors1
       IN  ValidateNumbers(cfg, errors2,
             << [key |-> "command_timeout", default |-> PyInt(60), error |-> TIMEOUT_NOT_POSITIVE],
                [key |-> "max_output_length", default |-> PyInt(10000), error |-> OUTPUT_NOT_POSITIVE],
                [key |-> "max_file_size", default |-> PyInt(1024 * 100), error |-> FILE_SIZE_NOT_POSITIVE] >>)

\* reset(): config_path.unlink() if it exists, the defaults, save()
ResetBody(cfg, file) == Save(DEFAULT_CONFIG, NoFile)

\* config_manager = ConfigManager(): no file yet, so load() saves the defaults
ManagerInit == [config |-> DEFAULT_CONFIG, op |-> "none", ret |-> NoRet]

ConfigFileInit == JsonFile(ToJson(DEFAULT_CONFIG))

(***************************************************************************)
(* sgents/_api_key_tools.py: the APIKeyManager over the system credential  *)
(* store of one service name.  keys.store is what keyring holds for each    *)
(* username (None when it holds nothing); backend is how keyring answers a  *)
(* call: "ok", "NoKeyringError", or "error" for any other exception.        *)
(***************************************************************************)
\* str.strip() on a sequence of characters
RECURSIVE Strip(_)
Strip(s) ==
  IF s = <<>> THEN s
  ELSE IF s[1] \in {" ", "\t", "\n"} THEN Strip(Tail(s))
  ELSE IF s[Len(s)] \in {" ", "\t", "\n"} THEN Strip(SubSeq(s, 1, Len(s) - 1))
  ELSE s

\* api_key_manager = APIKeyManager(): nothing stored yet
KeysInit ==
  [store |-> [u \in {"alice", "bob"} |-> PyNone], op |-> "none", api_key |-> <<>>,
   username |-> "alice", backend |-> "ok", ret |-> NoRet]

(***************************************************************************)
(* sgents/ui: the two console front-ends, main() of _main_interface.py     *)
(* ("console") and Interface.main of _user_interface.py ("interface").     *)
(* For each, ui holds whether its loop is running, its task counter, the   *)
(* answers given in its last iteration, prompt by prompt, what that        *)
(* iteration did and the                                                   *)
(* choices its task-type submenu offered.  A prompt's answer is a str, or  *)
(* None when the prompt is cancelled.                                      *)
(***************************************************************************)
\* The iterations modelled stop at this many tasks
MaxTasks == 2

\* "执行新任务", "查看历史任务", "浏览工作区", "Agent 团队状态", "配置设置", "退出"
MainChoices ==
  << "execute new task", "view task history", "browse workspace", "agent team status",
     "settings", "exit" >>

\* "网页爬取", "数据处理", "文件操作", "系统命令", "多 Agent 协作", "返回"
TaskTypeChoices ==
  << "web crawling", "data processing", "file operations", "system commands",
     "multi-agent collaboration", "return" >>

\* main() has set task_count = 0; Interface() has run __init__
UiInit ==
  [last |-> "none",
   console |-> [running |-> TRUE, task_count |-> 0, answer |-> <<>>, did |-> <<>>, offered |-> <<>>],
   interface |-> [running |-> TRUE, task_count |-> 0, answer |-> <<>>, did |-> <<>>, offered |-> <<>>]]

\* The caller's threads that call write_in_file, each from an event loop of
\* its own
Threads == {"t1", "t2"}

ThreadIdle == [pc |-> "idle", path |-> <<>>, content |-> <<>>, target |-> ROOT, ret |-> NoRet]

(***************************************************************************)
(* The state after Config() and AtomicTools(config): the workspace          *)
(* directory exists; /e is a directory outside it, holding a file.         *)
(***************************************************************************)
InitFs ==
  [p \in {ROOT, WORKSPACE, <<"e">>, <<"e", "a">>, SANDBOX_PATH} |->
     IF p = <<"e", "a">> THEN File(<<97>>) ELSE Dir]

Init ==
  /\ config \in Configs
  /\ fs = InitFs
  /\ call = NoCall
  /\ ret = NoRet
  /\ exec = ExecIdle
  /\ procs = {}
  /\ ncalls = 0
  /\ threads = [t \in Threads |-> ThreadIdle]
  /\ manager = ManagerInit
  /\ config_file = ConfigFileInit
  /\ keys = KeysInit
  /\ ui = UiInit

\* The same state, sandbox_enabled left at its default
InitFiles == Init /\ config.sandbox_enabled

\* A public operation is called when no other is in progress
Ready == exec.pc # "running"

FileCall(op, path, content) == [op |-> op, path |-> path, content |-> content]

(***************************************************************************)
(* The public file operations.                                             *)
(***************************************************************************)
MakeNewDir(dir_name, fault) ==
  /\ Ready
  /\ LET r == MakeNewDirBody(fs, dir_name, fault)
     IN  fs' = r.fs /\ ret' = Catch(r, MKDIR_FAILED)
  /\ call' = FileCall("make_new_dir", dir_name, <<>>)
  /\ exec' = ExecIdle
  /\ UNCHANGED <<config, procs, ncalls, threads, manager, config_file, keys, ui>>

WriteInFile(file_path, content, fault) ==
  /\ Ready
  /\ LET r == WriteInFileBody(fs, file_path, content, fault)
     IN  fs' = r.fs /\ ret' = Catch(r, WRITE_FAILED)
  /\ call' = FileCall("write_in_file", file_path, content)
  /\ exec' = ExecIdle
  /\ UNCHANGED <<config, procs, ncalls, threads, manager, config_file, keys, ui>>

AppendToFile(file_path, content, fault) ==
  /\ Ready
  /\ LET r == AppendToFileBody(fs, file_path, content, fault)
     IN  /\ \A p \in DOMAIN r.fs : Len(r.fs[p].data) <= MaxFileSize + 1   \* the model's files stay small
         /\ fs' = r.fs
         /\ ret' = Catch(r, APPEND_FAILED)
  /\ call' = FileCall("append_to_file", file_path, content)
  /\ exec' = ExecIdle
  /\ UNCHANGED <<config, procs, ncalls, threads, manager, config_file, keys, ui>>

\* A file handle kept between calls, so that a second read of the same path
\* starts where the first one ended: not what the source does
ReadFileRetainingHandle(file_path, fault) ==
  /\ Ready
  /\ LET r == ReadFileBody(fs, file_path, fault)
         again == /\ call.op = "read_file"
                  /\ call.path = file_path
                  /\ ret.kind = "return"
                  /\ ~IsPrefix(<<ERR>>, ret.value)
                  /\ ~IsPrefix(<<READ_FAILED>>, ret.value)
     IN  fs' = r.fs /\ ret' = IF again /\ r.ok THEN Return(<<>>) ELSE Catch(r, READ_FAILED)
  /\ call' = FileCall("read_file", file_path, <<>>)
  /\ exec' = ExecIdle
  /\ UNCHANGED <<config, procs, ncalls, threads, manager, config_file, keys, ui>>

ReadFile(file_path, fault) ==
  /\ Ready
  /\ LET r == ReadFileBody(fs, file_path, fault)
     IN  fs' = r.fs /\ ret' = Catch(r, READ_FAILED)
  /\ call' = FileCall("read_file", file_path, <<>>)
  /\ exec' = ExecIdle
  /\ UNCHANGED <<config, procs, ncalls, threads, manager, config_file, keys, ui>>

\* The directory resolved as _get_safe_path resolves it, for the entries
\* iterdir() may yield
ListTarget(f, dir_name) ==
  LET t == GetSafePath(f, dir_name) IN IF t.ok THEN t.value ELSE ROOT

ListFiles(dir_name, fault) ==
  /\ Ready
  /\ \E items \in Enumerations(fs, ListTarget(fs, dir_name)) :
       LET r == ListFilesBody(fs, dir_name, items, fault)
       IN  fs' = r.fs /\ ret' = Catch(r, LIST_FAILED)
  /\ call' = FileCall("list_files", dir_name, <<>>)
  /\ exec' = ExecIdle
  /\ UNCHANGED <<config, procs, ncalls, threads, manager, config_file, keys, ui>>

(***************************************************************************)
(* execute_command and install_package.  subprocess.run blocks the call    *)
(* until the shell exits or command_timeout seconds have passed.           *)
(***************************************************************************)
\* execute_command up to subprocess.run having started the shell
StartCommand(op, arg, command) ==
  /\ Ready
  /\ ncalls < MaxCalls
  /\ ncalls' = ncalls + 1
  /\ exec' = [pc |-> "running", command |-> command,
              run_command |-> RunCommand(fs, command), elapsed |-> 0,
              result |-> NoResult]
  /\ procs' = procs \cup {Shell(ncalls + 1)}
  /\ call' = FileCall(op, <<>>, arg)
  /\ ret' = NoRet
  /\ UNCHANGED <<config, fs, threads, manager, config_file, keys, ui>>

\* The instance falling back to no sandbox when the shell cannot be started:
\* not what the source does
SpawnFailsDisablingSandbox(op, arg, command) ==
  /\ Ready
  /\ exec' = [pc |-> "returned", command |-> command,
              run_command |-> RunCommand(fs, command), elapsed |-> 0,
              result |-> NoResult]
  /\ call' = FileCall(op, <<>>, arg)
  /\ ret' = Return(<<ERR, "OSError">>)
  /\ config' = [config EXCEPT !.sandbox_enabled = FALSE]
  /\ UNCHANGED <<fs, procs, ncalls, threads, manager, config_file, keys, ui>>

\* subprocess.run cannot start the shell (OSError): except Exception
SpawnFails(op, arg, command) ==
  /\ Ready
  /\ exec' = [pc |-> "returned", command |-> command,
              run_command |-> RunCommand(fs, command), elapsed |-> 0,
              result |-> NoResult]
  /\ call' = FileCall(op, <<>>, arg)
  /\ ret' = Return(<<ERR, "OSError">>)
  /\ UNCHANGED <<config, fs, procs, ncalls, threads, manager, config_file, keys, ui>>

ExecuteCommand(command) ==
  \/ StartCommand("execute_command", command, command)
  \/ SpawnFails("execute_command", command, command)

\* Every name handed to execute_command: not what the source does
InstallPackageUnvalidated(package_name) ==
  \/ StartCommand("install_package", package_name, <<UV_PIP_INSTALL>> \o package_name)
  \/ SpawnFails("install_package", package_name, <<UV_PIP_INSTALL>> \o package_name)

InstallPackage(package_name) ==
  IF ~ValidatePackageName(package_name)
    THEN /\ Ready
         /\ ret' = Return(<<ERR, INVALID_NAME>> \o package_name)
         /\ call' = FileCall("install_package", <<>>, package_name)
         /\ exec' = ExecIdle
         /\ UNCHANGED <<config, fs, procs, ncalls, threads, manager, config_file, keys, ui>>
    ELSE \/ StartCommand("install_package", package_name, <<UV_PIP_INSTALL>> \o package_name)
         \/ SpawnFails("install_package", package_name, <<UV_PIP_INSTALL>> \o package_name)

\* A second passes while subprocess.run waits
Tick ==
  /\ exec.pc = "running"
  /\ exec.elapsed < config.command_timeout
  /\ exec' = [exec EXCEPT !.elapsed = @ + 1]
  /\ UNCHANGED <<config, fs, call, ret, procs, ncalls, threads, manager, config_file, keys, ui>>

\* The command starts a process of its own
ShellFork ==
  /\ exec.pc = "running"
  /\ procs' = procs \cup {Child(ncalls)}
  /\ procs' # procs
  /\ UNCHANGED <<config, fs, call, ret, exec, ncalls, threads, manager, config_file, keys, ui>>

\* The shell exits by itself: subprocess.run returns the CompletedProcess
ShellExit(returncode, stdout, stderr) ==
  /\ exec.pc = "running"
  /\ procs' = procs \ {Shell(ncalls)}
  /\ exec' = [exec EXCEPT !.pc = "returned", !.result = Completed(returncode, stdout, stderr)]
  /\ ret' = Return(FormatOutput(returncode, stdout, stderr))
  /\ UNCHANGED <<config, fs, call, ncalls, threads, manager, config_file, keys, ui>>

\* command_timeout seconds have passed: subprocess.run kills the shell
\* (Popen.kill), waits for it and raises TimeoutExpired
ExecTimeout ==
  /\ exec.pc = "running"
  /\ exec.elapsed = config.command_timeout
  /\ procs' = procs \ {Shell(ncalls)}
  /\ exec' = [exec EXCEPT !.pc = "returned"]
  /\ ret' = Return(<<ERR, TIMED_OUT>>)
  /\ UNCHANGED <<config, fs, call, ncalls, threads, manager, config_file, keys, ui>>

(***************************************************************************)
(* What others do to the machine between and during the calls.             *)
(***************************************************************************)
LINK == <<"w", "l">>

LinkTargets == {<<"e">>, <<"w", "d">>}

\* ln -s to /w/l
EnvSymlink(to) ==
  /\ Ready
  /\ ~IsLink(fs, WORKSPACE)
  /\ ~LExists(fs, LINK)
  /\ fs' = Put(fs, LINK, Link(to))
  /\ call' = NoCall /\ ret' = NoRet /\ exec' = ExecIdle
  /\ UNCHANGED <<config, procs, ncalls, threads, manager, config_file, keys, ui>>

\* rm /w/l
EnvUnlink ==
  /\ Ready
  /\ IsLink(fs, LINK)
  /\ fs' = Remove(fs, LINK)
  /\ call' = NoCall /\ ret' = NoRet /\ exec' = ExecIdle
  /\ UNCHANGED <<config, procs, ncalls, threads, manager, config_file, keys, ui>>

\* The workspace directory, still empty, is replaced by a symbolic link to /e
EnvWorkspace ==
  /\ Ready
  /\ ~IsLink(fs, WORKSPACE)
  /\ Children(fs, WORKSPACE) = {}
  /\ fs' = Put(fs, WORKSPACE, Link(<<"e">>))
  /\ call' = NoCall /\ ret' = NoRet /\ exec' = ExecIdle
  /\ UNCHANGED <<config, procs, ncalls, threads, manager, config_file, keys, ui>>

\* Sandboxie is installed or removed
EnvLauncher ==
  /\ Ready
  /\ fs' = IF LExists(fs, StartPath) THEN Remove(fs, StartPath) ELSE Put(fs, StartPath, File(<<>>))
  /\ call' = NoCall /\ ret' = NoRet /\ exec' = ExecIdle
  /\ UNCHANGED <<config, procs, ncalls, threads, manager, config_file, keys, ui>>

\* A process the command started exits
ChildExit(p) ==
  /\ p \in procs
  /\ p.role = "child"
  /\ procs' = procs \ {p}
  /\ UNCHANGED <<config, fs, call, ret, exec, ncalls, threads, manager, config_file, keys, ui>>

(***************************************************************************)
(* write_in_file called from several threads.  The coroutine holds no      *)
(* await and no lock: a thread runs it system call by system call, and     *)
(* another thread's system calls may fall in between.                      *)
(***************************************************************************)
\* What a write of bytes at offset 0 leaves in a file holding old: the handle
\* is not opened for appending, so bytes replace the first Len(bytes) of old
WriteAtStart(old, bytes) ==
  IF Len(bytes) >= Len(old) THEN bytes ELSE bytes \o SubSeq(old, Len(bytes) + 1, Len(old))

\* Thread t calls write_in_file(file_path, content)
ThreadCall(t, file_path, content) ==
  /\ threads[t].pc \in {"idle", "returned"}
  /\ threads' = [threads EXCEPT ![t] = [pc |-> "called", path |-> file_path, content |-> content,
                                        target |-> ROOT, ret |-> NoRet]]
  /\ UNCHANGED <<config, fs, call, ret, exec, procs, ncalls, manager, config_file, keys, ui>>

\* _get_safe_path(file_path) and target_file.parent.mkdir(parents=True, exist_ok=True)
ThreadPrepare(t) ==
  /\ threads[t].pc = "called"
  /\ LET target_file == GetSafePath(fs, threads[t].path)
         made == IF target_file.ok THEN Mkdir(fs, Parent(target_file.value), FALSE) ELSE target_file
     IN  /\ fs' = made.fs
         /\ threads' = [threads EXCEPT ![t] =
              IF made.ok THEN [@ EXCEPT !.pc = "prepared", !.target = target_file.value]
              ELSE [@ EXCEPT !.pc = "returned", !.ret = Catch(made, WRITE_FAILED)]]
  /\ UNCHANGED <<config, call, ret, exec, procs, ncalls, manager, config_file, keys, ui>>

\* open(target_file, mode="w"): the file is created or truncated, the handle
\* is at offset 0
ThreadOpen(t) ==
  /\ threads[t].pc = "prepared"
  /\ LET opened == OpenWrite(fs, threads[t].target, "w", <<>>, FALSE)
     IN  /\ fs' = opened.fs
         /\ threads' = [threads EXCEPT ![t] =
              IF opened.ok THEN [@ EXCEPT !.pc = "opened", !.target = opened.value]
              ELSE [@ EXCEPT !.pc = "returned", !.ret = Catch(opened, WRITE_FAILED)]]
  /\ UNCHANGED <<config, call, ret, exec, procs, ncalls, manager, config_file, keys, ui>>

\* f.write(content) fills the handle's buffer; leaving the with block flushes
\* it to the file at the handle's offset and closes; the success text is
\* returned
ThreadClose(t) ==
  /\ threads[t].pc = "opened"
  /\ fs' = Put(fs, threads[t].target,
               File(WriteAtStart(fs[threads[t].target].data, Encode(threads[t].content))))
  /\ threads' = [threads EXCEPT ![t] =
       [@ EXCEPT !.pc = "returned", !.ret = Return(WrittenText(threads[t].target))]]
  /\ UNCHANGED <<config, call, ret, exec, procs, ncalls, manager, config_file, keys, ui>>

(***************************************************************************)
(* The ConfigManager's methods, and a hand edit of the config file.        *)
(***************************************************************************)
ManagerCall(op, left) ==
  /\ manager' = [config |-> left.config, op |-> op, ret |-> left.ret]
  /\ config_file' = left.file
  /\ UNCHANGED <<config, fs, call, ret, exec, procs, ncalls, threads, keys, ui>>

ManagerLoad == ManagerCall("load", LoadBody(manager.config, config_file))

ManagerSet(key, value) == ManagerCall("set", SetBody(manager.config, config_file, key, value))

ManagerUpdate(config_dict) ==
  ManagerCall("update", UpdateBody(manager.config, config_file, config_dict))

ManagerValidate ==
  ManagerCall("validate", Left(manager.config, config_file, ValidateBody(manager.config)))

\* reset() rebuilt on load(): not what the source does
ManagerResetByReload == ManagerCall("reset", LoadBody(manager.config, config_file))

ManagerReset == ManagerCall("reset", ResetBody(manager.config, config_file))

\* The file is edited or removed by hand ("可手动编辑")
EnvEditConfig(file) ==
  /\ config_file' = file
  /\ config_file' # config_file
  /\ manager' = [manager EXCEPT !.op = "none", !.ret = NoRet]
  /\ UNCHANGED <<config, fs, call, ret, exec, procs, ncalls, threads, keys, ui>>

(***************************************************************************)
(* The APIKeyManager's methods.                                            *)
(***************************************************************************)
\* set_api_key that stores the key as given: not what the source does
SetApiKeyUnstripped(api_key, username, backend) ==
  /\ keys' = [op |-> "set", api_key |-> api_key, username |-> username, backend |-> backend,
              store |-> IF Strip(api_key) # <<>> /\ backend = "ok"
                          THEN [keys.store EXCEPT ![username] = PyStr(api_key)]
                          ELSE keys.store,
              ret |-> IF Strip(api_key) # <<>> /\ backend = "ok"
                        THEN Return(PyBool(TRUE))
                        ELSE Raise(Exc("APIKeyError", <<>>))]
  /\ UNCHANGED <<config, fs, call, ret, exec, procs, ncalls, threads, manager, config_file, ui>>

SetApiKey(api_key, username, backend) ==
  /\ keys' = [op |-> "set", api_key |-> api_key, username |-> username, backend |-> backend,
              store |-> IF Strip(api_key) # <<>> /\ backend = "ok"
                          THEN [keys.store EXCEPT ![username] = PyStr(Strip(api_key))]
                          ELSE keys.store,
              ret |-> IF Strip(api_key) # <<>> /\ backend = "ok"
                        THEN Return(PyBool(TRUE))
                        ELSE Raise(Exc("APIKeyError", <<>>))]
  /\ UNCHANGED <<config, fs, call, ret, exec, procs, ncalls, threads, manager, config_file, ui>>

GetApiKey(username, backend) ==
  /\ keys' = [keys EXCEPT !.op = "get", !.api_key = <<>>, !.username = username,
                          !.backend = backend,
                          !.ret = CASE backend = "ok" -> Return(keys.store[username])
                                    [] backend = "NoKeyringError" -> Raise(Exc("APIKeyError", <<>>))
                                    [] OTHER -> Return(PyNone)]
  /\ UNCHANGED <<config, fs, call, ret, exec, procs, ncalls, threads, manager, config_file, ui>>

\* keyring.delete_password raises PasswordDeleteError when nothing is stored
DeleteApiKey(username, backend) ==
  /\ keys' = [keys EXCEPT !.op = "delete", !.api_key = <<>>, !.username = username,
                          !.backend = backend,
                          !.store = IF backend = "ok" THEN [@ EXCEPT ![username] = PyNone] ELSE @,
                          !.ret = Return(PyBool(backend = "ok" /\ keys.store[username] # PyNone))]
  /\ UNCHANGED <<config, fs, call, ret, exec, procs, ncalls, threads, manager, config_file, ui>>

\* has_api_key: get_api_key(username) is not None
HasApiKey(username, backend) ==
  /\ keys' = [keys EXCEPT !.op = "has", !.api_key = <<>>, !.username = username,
                          !.backend = backend,
                          !.ret = CASE backend = "ok" -> Return(PyBool(keys.store[username] # PyNone))
                                    [] backend = "NoKeyringError" -> Raise(Exc("APIKeyError", <<>>))
                                    [] OTHER -> Return(PyBool(FALSE))]
  /\ UNCHANGED <<config, fs, call, ret, exec, procs, ncalls, threads, manager, config_file, ui>>

(***************************************************************************)
(* The console front-ends, one loop iteration a step: action or choose is  *)
(* the answer at the main menu, task_type and task_desc the answers at the *)
(* submenu and the description prompt when they are asked, interrupt a     *)
(* KeyboardInterrupt raised before the main menu is answered.  The answers *)
(* kept are those of the prompts that were shown.                          *)
(***************************************************************************)
MainLoop(action, task_type, task_desc, interrupt) ==
  /\ ui.console.running
  /\ ui.console.task_count < MaxTasks
  /\ LET typed == Truthy(task_type) /\ task_type # PyStr("return")
         counted == typed /\ Truthy(task_desc)
         did == IF interrupt THEN <<"interrupted">>
                ELSE IF action = PyNone \/ action = PyStr("exit") THEN <<"goodbye">>
                ELSE IF action = PyStr("execute new task")
                  THEN <<"ask task type">>
                       \o (IF typed THEN <<"ask description">> ELSE <<>>)
                       \o (IF counted THEN <<"task executed", "confirm">> ELSE <<>>)
                ELSE IF action = PyStr("view task history") THEN <<"history", "confirm">>
                ELSE IF action = PyStr("browse workspace") THEN <<"browse", "confirm">>
                ELSE IF action = PyStr("agent team status") THEN <<"agent status", "confirm">>
                ELSE IF action = PyStr("settings") THEN <<"settings", "confirm">>
                ELSE <<>>
     IN  ui' = [ui EXCEPT
           !.last = "main",
           !.console = [running |-> did # <<"goodbye">>,
                        task_count |-> IF "task executed" \in {did[i] : i \in 1..Len(did)}
                                         THEN @.task_count + 1 ELSE @.task_count,
                        answer |-> IF interrupt THEN <<[t |-> "KeyboardInterrupt"]>>
                                   ELSE <<action>>
                                        \o (IF IsPrefix(<<"ask task type">>, did) THEN <<task_type>> ELSE <<>>)
                                        \o (IF Len(did) > 1 /\ did[2] = "ask description"
                                              THEN <<task_desc>> ELSE <<>>),
                        did |-> did,
                        offered |-> IF IsPrefix(<<"ask task type">>, did)
                                      THEN TaskTypeChoices ELSE <<>>]]
  /\ UNCHANGED <<config, fs, call, ret, exec, procs, ncalls, threads, manager, config_file, keys>>

InterfaceLoop(choose, task_type, task_desc, interrupt) ==
  /\ ui.interface.running
  /\ ui.interface.task_count < MaxTasks
  /\ LET \* lang("ask_by_main_menu_choices").index(choose): 0 when it raises ValueError
         index == IF choose = PyNone THEN 0
                  ELSE CHOOSE i \in 1..Len(MainChoices) : MainChoices[i] = choose.s
         typed == Truthy(task_type) /\ task_type # PyStr(TaskTypeChoices[Len(TaskTypeChoices)])
         counted == typed /\ Truthy(task_desc)
         did == IF interrupt THEN <<"interrupted">>
                ELSE CASE index = 0 -> <<"error", "confirm">>
                       [] index = 1 -> <<"ask task type">>
                                       \o (IF typed THEN <<"ask description">> ELSE <<>>)
                                       \o (IF counted THEN <<"task executed">> ELSE <<>>)
                                       \o (IF typed THEN <<"confirm">> ELSE <<>>)
                       [] index = 2 -> <<"history">>
                       [] index = 3 -> <<"browse">>
                       [] index = 4 -> <<"settings">>
                       [] index = 5 -> <<"agent status", "confirm">>
                       [] OTHER -> <<"goodbye">>
     IN  ui' = [ui EXCEPT
           !.last = "Interface.main",
           !.interface = [running |-> did # <<"goodbye">>,
                          task_count |-> IF "task executed" \in {did[i] : i \in 1..Len(did)}
                                           THEN @.task_count + 1 ELSE @.task_count,
                          answer |-> IF interrupt THEN <<[t |-> "KeyboardInterrupt"]>>
                                     ELSE <<choose>>
                                          \o (IF IsPrefix(<<"ask task type">>, did) THEN <<task_type>> ELSE <<>>)
                                          \o (IF Len(did) > 1 /\ did[2] = "ask description"
                                                THEN <<task_desc>> ELSE <<>>),
                          did |-> did,
                          offered |-> IF IsPrefix(<<"ask task type">>, did)
                                        THEN MainChoices ELSE <<>>]]
  /\ UNCHANGED <<config, fs, call, ret, exec, procs, ncalls, threads, manager, config_file, keys>>

\* Interface() once more: __new__ returns the instance there is, and __init__
\* runs on it
ConstructInterface ==
  /\ ui' = [ui EXCEPT !.last = "Interface()", !.interface.task_count = 0]
  /\ UNCHANGED <<config, fs, call, ret, exec, procs, ncalls, threads, manager, config_file, keys>>

(***************************************************************************)
(* Inputs.                                                                 *)
(***************************************************************************)
\* "", "d", "d/a", "l", "..", "../w", "../wx", "/e/a"
FileNames ==
  { <<>>, <<"d">>, <<"d", "/", "a">>, <<"l">>,
    <<"..">>, <<"..", "/", "w">>, <<"..", "/", "wx">>, <<"/", "e", "/", "a">> }

Commands == { <<"exit 7">>, <<"sleep 100; echo hi">> }

ReturnCodes == {0, 7}

Outputs == StringsUpTo({"x"}, 3)

MaxNameLen == 2

PkgAlphabet == {"p", "-", "[", "]", ";", "LF"}

\* All short names, and "uvicorn[standard]", "pkg; rm -rf /", "../evil",
\* "p[p]", "p[p]\n"
PackageNames ==
  StringsUpTo(PkgAlphabet, MaxNameLen)
    \cup { <<"p", "[", "p", "]">>,
           <<"u", "v", "i", "c", "o", "r", "n", "[", "s", "t", "a", "n", "d", "a", "r", "d", "]">>,
           <<"p", "k", "g", ";", " ", "r", "m", " ", "-", "r", "f", " ", "/">>,
           <<".", ".", "/", "e", "v", "i", "l">>,
           <<"p", "[", "p", "]", "LF">> }

(***************************************************************************)
(* Specifications.                                                         *)
(***************************************************************************)
FileStep(names, contents, faults) ==
  \/ \E n \in names, fault \in faults : MakeNewDir(n, fault)
  \/ \E n \in names, c \in contents, fault \in faults : WriteInFile(n, c, fault)
  \/ \E n \in names, c \in contents, fault \in faults : AppendToFile(n, c, fault)
  \/ \E n \in names, fault \in faults : ReadFile(n, fault)
  \/ \E n \in names, fault \in faults : ListFiles(n, fault)

LinkStep ==
  \/ \E to \in LinkTargets : EnvSymlink(to)
  \/ EnvUnlink
  \/ EnvWorkspace

CallStep(commands, names) ==
  \/ \E c \in commands : ExecuteCommand(c)
  \/ \E n \in names : InstallPackage(n)

RunStep(outputs) ==
  \/ Tick
  \/ \E rc \in ReturnCodes, out \in outputs, err \in outputs : ShellExit(rc, out, err)
  \/ ExecTimeout

ProcStep ==
  \/ ShellFork
  \/ \E p \in procs : ChildExit(p)

\* The file operations on every path of FileNames, links made and removed meanwhile
NextPaths == FileStep(FileNames, {<<"a">>}, {FALSE}) \/ LinkStep

SpecPaths == InitFiles /\ [][NextPaths]_vars

\* The file operations on "d/a" and "d" with every content
NextContent == FileStep({<<"d", "/", "a">>, <<"d">>}, Contents, {FALSE})

SpecContent == InitFiles /\ [][NextContent]_vars

\* Command execution, with Sandboxie installed and removed meanwhile
NextExec ==
  \/ CallStep(Commands, {<<"p">>, <<"p", ";">>})
  \/ RunStep(Outputs)
  \/ ProcStep
  \/ EnvLauncher

SpecExec == Init /\ [][NextExec]_vars

\* install_package on every name of PackageNames
NextPkg ==
  \/ \E n \in PackageNames : InstallPackage(n)
  \/ RunStep({<<>>})

SpecPkg == Init /\ [][NextPkg]_vars

\* Every public operation
Next ==
  \/ FileStep({<<"d", "/", "a">>, <<"d">>, <<"..">>}, {<<"a">>}, BOOLEAN)
  \/ CallStep({<<"exit 7">>}, {<<"p">>, <<"p", ";">>})
  \/ RunStep({<<>>, <<"x">>})

Spec == Init /\ [][Next]_vars

\* write_in_file called from two threads on "d" and "d/a"
ThreadContents == { <<"a">>, <<"e_acute">>, <<"a", "a">> }

NextThreads ==
  \/ \E t \in Threads, n \in {<<"d">>, <<"d", "/", "a">>}, c \in ThreadContents : ThreadCall(t, n, c)
  \/ \E t \in Threads : ThreadPrepare(t)
  \/ \E t \in Threads : ThreadOpen(t)
  \/ \E t \in Threads : ThreadClose(t)

SpecThreads == InitFiles /\ [][NextThreads]_vars

\* The file operations on "d/a" and "d" with contents of one and two bytes
NextWrites == FileStep({<<"d", "/", "a">>, <<"d">>}, ThreadContents, {FALSE})

SpecWrites == InitFiles /\ [][NextWrites]_vars

\* One thread's write_in_file("l", ...) while another actor makes /w/l a
\* symbolic link to a file outside the workspace, or removes the link
NextRace ==
  \/ \E t \in Threads, c \in ThreadContents : ThreadCall(t, <<"l">>, c)
  \/ \E t \in Threads : ThreadPrepare(t)
  \/ \E t \in Threads : ThreadOpen(t)
  \/ \E t \in Threads : ThreadClose(t)
  \/ \E to \in {<<"e", "a">>, <<"e", "b">>} : EnvSymlink(to)
  \/ EnvUnlink

SpecRace == InitFiles /\ [][NextRace]_vars

\* The ConfigManager's methods given ints, strs, a bool, None, a tuple, a
\* list and a set, the file edited by hand meanwhile
NextManager ==
  \/ ManagerLoad
  \/ \E key \in {"command_timeout", "sandbox_path"},
        value \in { PyInt(0), PyInt(120), PyStr(""), PyStr("60"), PyBool(FALSE), PyNone,
                    PyTuple(<<1, 2>>), PyList(<<1, 2>>), PySet(<<1, 2>>) } :
       ManagerSet(key, value)
  \/ \E d \in { [k \in {"sandbox_enabled", "command_timeout"} |->
                   IF k = "sandbox_enabled" THEN PyBool(FALSE) ELSE PyInt(120)],
                [k \in {"workspace", "max_file_size"} |->
                   IF k = "workspace" THEN PyStr("") ELSE PyInt(0)] } :
       ManagerUpdate(d)
  \/ ManagerValidate
  \/ ManagerReset
  \/ \E file \in { NoFile, NotJson, NotUtf8, JsonFile(JArray(<<1>>)),
                    JsonFile(JObject([k \in {"command_timeout"} |-> JNull])),
                    JsonFile(JObject([k \in {"x"} |-> JNumber(1)])) } :
       EnvEditConfig(file)

SpecManager == Init /\ [][NextManager]_vars

\* The APIKeyManager's methods for two usernames and keys with and without
\* surrounding whitespace
NextKeys ==
  \E username \in {"alice", "bob"}, backend \in {"ok", "NoKeyringError", "error"} :
    \/ \E api_key \in { <<>>, <<" ">>, <<"k">>, <<" ", "k">>, <<"j", "\n">>, <<"k", " ", "j">> } :
         SetApiKey(api_key, username, backend)
    \/ GetApiKey(username, backend)
    \/ DeleteApiKey(username, backend)
    \/ HasApiKey(username, backend)

SpecKeys == Init /\ [][NextKeys]_vars

\* The two front-ends given every main-menu answer, a first and the last
\* submenu choice, and an empty and a non-empty description
NextUi ==
  \/ \E action \in {PyNone} \cup {PyStr(MainChoices[i]) : i \in 1..Len(MainChoices)},
        task_type \in {PyNone, PyStr(TaskTypeChoices[1]), PyStr(TaskTypeChoices[6])},
        task_desc \in {PyNone, PyStr(""), PyStr("t")}, interrupt \in BOOLEAN :
       MainLoop(action, task_type, task_desc, interrupt)
  \/ \E choose \in {PyNone} \cup {PyStr(MainChoices[i]) : i \in 1..Len(MainChoices)},
        task_type \in {PyNone, PyStr(MainChoices[1]), PyStr(MainChoices[6])},
        task_desc \in {PyNone, PyStr(""), PyStr("t")}, interrupt \in BOOLEAN :
       InterfaceLoop(choose, task_type, task_desc, interrupt)
  \/ ConstructInterface

SpecUi == Init /\ [][NextUi]_vars

(***************************************************************************)
(* The claims.                                                             *)
(***************************************************************************)
FileOps == {"make_new_dir", "write_in_file", "append_to_file", "read_file", "list_files"}

\* The canonical form of the path a file operation is given, and of the
\* workspace root, in filesystem f
CanonicalTarget(f, filename) == Resolve(f, JoinPath(config.workspace, filename))

CanonicalRoot(f) == Resolve(f, config.workspace)

\* p is root or a descendant of root
IsWithin(p, root) == Len(p) >= Len(root) /\ \A i \in 1..Len(root) : p[i] = root[i]

IsOutside(f, filename) == ~IsWithin(CanonicalTarget(f, filename), CanonicalRoot(f))

ContainmentError(filename) == Return(<<ERR, ILLEGAL_PATH>> \o filename \o <<OUTSIDE>>)

\* C1: a file operation called with a path whose canonical form lies outside
\* the workspace returns the containment error and leaves the whole filesystem
\* as it was.
C1_OutsideRejectedUnchanged ==
  [][(call'.op \in FileOps /\ IsOutside(fs, call'.path))
       => (fs' = fs /\ ret' = ContainmentError(call'.path))]_vars

\* write_in_file("l", ...) where /w/l is a symbolic link to /e was rejected
C1_Witness ==
  /\ call.op = "write_in_file"
  /\ call.path = <<"l">>
  /\ IsLink(fs, LINK)
  /\ fs[LINK].target = <<"e">>
  /\ ret = ContainmentError(<<"l">>)

\* C3: _get_safe_path rejects a path exactly when its canonical target is
\* neither the canonical workspace root nor a descendant of it, both taken in
\* the filesystem as it is at the call; an accepted path comes back as its
\* canonical target (the root itself for "" and "../w"), which make_new_dir's
\* success text shows.
C3_AcceptsExactlyWithin ==
  [][call'.op \in FileOps =>
       /\ (ret' = ContainmentError(call'.path)) <=> IsOutside(fs, call'.path)
       /\ (call'.op = "make_new_dir" /\ ret'.value[1] = "directory ")
            => ret'.value = <<"directory ">> \o PathStr(CanonicalTarget(fs, call'.path))
                              \o <<" created.">>]_vars

\* make_new_dir("../w") returned the root, while the workspace path was a
\* symbolic link whose canonical form is /e
C3_Witness ==
  /\ call.op = "make_new_dir"
  /\ call.path = <<"..", "/", "w">>
  /\ IsLink(fs, WORKSPACE)
  /\ ret = Return(<<"directory ", "/", "e", " created.">>)

\* C2: no public operation raises to its caller: whatever fails (containment,
\* an invalid package name, a timeout, a shell that cannot be started, a
\* missing file, a directory where a file is expected, a refusal by the
\* operating system), a call that has ended has returned a text.
C2_NeverRaises ==
  /\ ret.kind # "raise"
  /\ (call.op # "none" /\ exec.pc # "running") => ret.kind = "return"

\* write_in_file("d/a", ...) while /w/d is a file: FileExistsError from the
\* parent's mkdir, returned under "write failed: "
C2_Witness ==
  /\ call.op = "write_in_file"
  /\ ret.kind = "return"
  /\ ret.value[1] = WRITE_FAILED
  /\ call.path = <<"d", "/", "a">>
  /\ ret.value[2] = "FileExistsError"

\* A package name as the documentation describes it: one or more characters of
\* [a-zA-Z0-9_-], then optionally "[", one or more of the same, "]", and nothing
\* else
IsPlainName(s) == s # <<>> /\ \A k \in 1..Len(s) : s[k] \in NameClass

IsWellFormedName(s) ==
  \/ IsPlainName(s)
  \/ \E i \in 2..(Len(s) - 2) :
       /\ IsPlainName(SubSeq(s, 1, i - 1))
       /\ s[i] = "["
       /\ IsPlainName(SubSeq(s, i + 1, Len(s) - 1))
       /\ s[Len(s)] = "]"

InvalidNameError(package_name) == Return(<<ERR, INVALID_NAME>> \o package_name)

\* C4: _validate_package_name accepts exactly the well-formed names, so
\* install_package returns its invalid-name error for every other string.
C4_ValidIffWellFormed ==
  call.op = "install_package"
    => ((ret = InvalidNameError(call.content)) <=> ~IsWellFormedName(call.content))

\* C5: install_package hands a command to execute_command exactly when the name
\* passes _validate_package_name: for a name that does not, it returns the
\* invalid-name error, no subprocess.run starts and no process appears; for one
\* that does, the command is "uv pip install -q " followed by the name.
C5_InstallRunsOnlyValidated ==
  [][call'.op = "install_package" =>
       IF ValidatePackageName(call'.content)
         THEN /\ exec'.pc # "idle"
              /\ exec'.command = <<UV_PIP_INSTALL>> \o call'.content
         ELSE /\ exec' = ExecIdle
              /\ procs' \subseteq procs
              /\ ncalls' = ncalls
              /\ ret' = InvalidNameError(call'.content)]_vars

\* install_package("p;") was refused and nothing runs
C5_Witness ==
  /\ call.op = "install_package"
  /\ call.content = <<"p", ";">>
  /\ ret = InvalidNameError(<<"p", ";">>)
  /\ exec = ExecIdle
  /\ procs = {}

\* The file a read_file call reads, in filesystem f
ReadTarget(f, filename) == CanonicalTarget(f, filename)

ReadsAFile(f, filename) ==
  /\ ~IsOutside(f, filename)
  /\ LExists(f, ReadTarget(f, filename))
  /\ f[ReadTarget(f, filename)].kind = "file"

\* C6: write_in_file(path, content) that succeeded, followed by
\* read_file(path), returns exactly content when content is shorter than
\* max_file_size.
C6_WriteReadRoundTrip ==
  [][(/\ call.op = "write_in_file"
      /\ ret = Return(WrittenText(CanonicalTarget(fs, call.path)))
      /\ Len(call.content) < config.max_file_size
      /\ call'.op = "read_file"
      /\ call'.path = call.path)
       => ret' = Return(call.content)]_vars

\* C7: read_file on a file of more than max_file_size bytes returns the text
\* decoded from its first max_file_size bytes, then the truncation notice; on
\* a file of at most max_file_size bytes it returns the whole text and no
\* notice.
C7_TruncatesAtBytes ==
  (call.op = "read_file" /\ ReadsAFile(fs, call.path) /\ ret.kind = "return"
     /\ ~IsPrefix(<<READ_FAILED>>, ret.value))
    => LET bytes == fs[ReadTarget(fs, call.path)].data
           limit == config.max_file_size
       IN  IF Len(bytes) > limit
             THEN ret = Return(TranslateNewlines(Decode(Take(bytes, limit))) \o <<TRUNCATED_100KB>>)
             ELSE ret = Return(TranslateNewlines(Decode(bytes)))

\* Case-sensitive ordinal order of the names the model's directories hold
NameRank(n) == CASE n = "a" -> 1 [] n = "d" -> 2 [] n = "l" -> 3 [] OTHER -> 4

NameOf(p) == p[Len(p)]

\* Directories first, and names ascending within the directories and within
\* the files
IsListingOrder(f, items) ==
  \A i, j \in 1..Len(items) :
    i < j =>
      /\ IsDir(f, items[i]) \/ ~IsDir(f, items[j])
      /\ (IsDir(f, items[i]) <=> IsDir(f, items[j]))
           => NameRank(NameOf(items[i])) < NameRank(NameOf(items[j]))

\* C8: list_files returns one line per entry, every directory's line before
\* every file's, names ascending within each group, whatever order the
\* filesystem yields the entries in.
C8_ListingSorted ==
  (call.op = "list_files" /\ ret.kind = "return"
     /\ ret.value[1] \notin {ERR, LIST_FAILED, DIR_EMPTY})
    => \E items \in Enumerations(fs, ListTarget(fs, call.path)) :
         /\ IsListingOrder(fs, items)
         /\ ret.value = JoinLines([i \in 1..Len(items) |-> ListLine(fs, items[i])])

\* C9: when execute_command has returned its timeout text, no process that
\* call started (its shell, or a process the command started) is still running.
C9_TimeoutLeavesNoProcess ==
  (exec.pc = "returned" /\ ret = Return(<<ERR, TIMED_OUT>>))
    => \A p \in procs : p.call # ncalls

\* The launcher executable is on disk
LauncherOnDisk(f) == LExists(f, Append(config.sandbox_path, "Start.exe"))

\* C10: the command subprocess.run is given is the launcher's quoted path, a
\* space and the command when sandbox_enabled holds and the launcher is on disk
\* as the call is made, and the command unchanged otherwise.
C10_LauncherPrefixedIffPresent ==
  [][ncalls' # ncalls =>
       exec'.run_command =
         IF config.sandbox_enabled /\ LauncherOnDisk(fs)
           THEN <<"\"", "/", "s", "/", "Start.exe", "\"", " ">> \o exec'.command
           ELSE exec'.command]_vars

\* A command is running under the launcher
C10_Witness ==
  /\ exec.pc = "running"
  /\ call.op = "execute_command"
  /\ exec.run_command = <<"\"", "/", "s", "/", "Start.exe", "\"", " ", "exit 7">>

\* execute_command has returned the text built from a CompletedProcess
RanToCompletion == exec.pc = "returned" /\ exec.result.completed

ReturnCodeLine(returncode) == <<RETURN_CODE, ToString(returncode), "LF">>

\* C11: the result of a command that ran to completion starts with the
\* return-code line holding the numeric return code; with stdout and stderr
\* both empty the result is that line alone, with no stdout section and no
\* stderr section.
C11_ReturnCodeAlwaysReported ==
  RanToCompletion =>
    /\ IsPrefix(ReturnCodeLine(exec.result.returncode), ret.value)
    /\ (exec.result.stdout = <<>> /\ exec.result.stderr = <<>>)
         => /\ ret.value = ReturnCodeLine(exec.result.returncode)
            /\ \A i \in 1..Len(ret.value) : ret.value[i] \notin {STDOUT, STDERR}

\* "exit 7" has run to completion with no output
C11_Witness ==
  /\ RanToCompletion
  /\ call.op = "execute_command"
  /\ exec.command = <<"exit 7">>
  /\ exec.result = Completed(7, <<>>, <<>>)
  /\ ret = Return(<<RETURN_CODE, "7", "LF">>)

\* One stream's section of the result: nothing for an empty stream, else the
\* heading, the stream's first max_output_length characters, what ends the
\* section, and the notice when the stream is longer than max_output_length
Section(heading, stream, ending, notice) ==
  IF stream = <<>> THEN <<>>
  ELSE <<heading>> \o SubSeq(stream, 1, Min(Len(stream), config.max_output_length)) \o ending
       \o (IF Len(stream) > config.max_output_length THEN <<notice>> ELSE <<>>)

\* C12: after the return-code line the result holds the section of stdout and
\* then the section of stderr, each cut and marked by the length of its own
\* stream alone.
C12_StreamsCutIndependently ==
  RanToCompletion =>
    ret.value = ReturnCodeLine(exec.result.returncode)
                  \o Section(STDOUT, exec.result.stdout, <<"LF">>, STDOUT_CUT)
                  \o Section(STDERR, exec.result.stderr, <<>>, STDERR_CUT)

\* stdout is longer than max_output_length and stderr is not: only stdout is
\* cut and marked
C12_Witness ==
  /\ RanToCompletion
  /\ Len(exec.result.stdout) > config.max_output_length
  /\ exec.result.stderr # <<>>
  /\ Len(exec.result.stderr) <= config.max_output_length
  /\ \E i \in 1..Len(ret.value) : ret.value[i] = STDOUT_CUT
  /\ \A i \in 1..Len(ret.value) : ret.value[i] # STDERR_CUT

\* The bytes of the file at path p in filesystem f, none when there is no file
FileBytes(f, p) == IF LExists(f, p) /\ f[p].kind = "file" THEN f[p].data ELSE <<>>

\* C13: a write_in_file call that succeeds leaves its target holding the
\* encoding of the content of that call and nothing of what the file held
\* before, in a parent directory that exists; the same call made again leaves
\* the filesystem as it is.
C13_LastWriteWins ==
  [][(call'.op = "write_in_file" /\ ret' = Return(WrittenText(CanonicalTarget(fs, call'.path))))
       => LET t == CanonicalTarget(fs, call'.path)
          IN  /\ LExists(fs', t)
              /\ fs'[t] = File(Encode(call'.content))
              /\ IsDir(fs', Parent(t))
              /\ Decode(FileBytes(fs', t)) = call'.content
              /\ WriteInFileBody(fs', call'.path, call'.content, FALSE).fs = fs']_vars

\* write_in_file("d/a", "a") has succeeded: /w/d/a holds "a" alone, in the
\* parent /w/d
C13_Witness ==
  /\ call.op = "write_in_file"
  /\ call.path = <<"d", "/", "a">>
  /\ call.content = <<"a">>
  /\ ret = Return(WrittenText(<<"w", "d", "a">>))
  /\ fs[<<"w", "d", "a">>] = File(<<97>>)

\* C14: an append_to_file call that succeeds leaves its target holding what
\* the file held before the call (nothing when there was no file) followed by
\* the encoding of the content, in a parent directory that exists.
C14_AppendKeepsContent ==
  [][(call'.op = "append_to_file" /\ ret' = Return(AppendedText(CanonicalTarget(fs, call'.path))))
       => LET t == CanonicalTarget(fs, call'.path)
          IN  /\ LExists(fs', t)
              /\ fs'[t] = File(FileBytes(fs, t) \o Encode(call'.content))
              /\ IsDir(fs', Parent(t))]_vars

\* append_to_file("d/a", "a") was called on a file holding "a"
C14_Witness ==
  /\ call.op = "append_to_file"
  /\ call.path = <<"d", "/", "a">>
  /\ call.content = <<"a">>
  /\ ret = Return(AppendedText(<<"w", "d", "a">>))
  /\ fs[<<"w", "d", "a">>] = File(<<97, 97>>)

CreatedText(p) == <<"directory ">> \o PathStr(p) \o <<" created.">>   \* "目录 {target_dir} 创建成功。"

\* C15: a make_new_dir call made right after a successful make_new_dir call on
\* the same path returns the same success text and leaves the directory tree
\* as the first call left it; and a make_new_dir call on a directory that
\* exists returns the success text.
C15_MakeNewDirIdempotent ==
  [][call'.op = "make_new_dir" =>
       /\ (/\ call.op = "make_new_dir"
           /\ call.path = call'.path
           /\ ret = Return(CreatedText(CanonicalTarget(fs, call.path))))
            => (ret' = ret /\ fs' = fs)
       /\ (~IsOutside(fs, call'.path) /\ IsDir(fs, CanonicalTarget(fs, call'.path)))
            => (ret' = Return(CreatedText(CanonicalTarget(fs, call'.path))) /\ fs' = fs)]_vars

\* make_new_dir("d/a") has succeeded and /w/d/a is a directory
C15_Witness ==
  /\ call.op = "make_new_dir"
  /\ call.path = <<"d", "/", "a">>
  /\ ret = Return(CreatedText(<<"w", "d", "a">>))
  /\ fs[<<"w", "d", "a">>] = Dir
  /\ fs[<<"w", "d">>] = Dir

\* "错误：文件 {file_path} 不存在。"
NoSuchFileError(file_path) == Return(<<ERR, "file ">> \o file_path \o <<" does not exist.">>)

\* "错误：{file_path} 是一个目录，请使用 list_files 查看。"
IsADirectoryText(file_path) == Return(<<ERR>> \o file_path \o <<" is a directory, use list_files.">>)

\* C16: read_file on a path inside the workspace returns the 'does not exist'
\* error when nothing is there and the 'is a directory' error when a directory
\* is there, and in both cases leaves the filesystem as it was.
C16_ReadMissingOrDirectory ==
  [][(call'.op = "read_file" /\ ~IsOutside(fs, call'.path))
       => LET t == CanonicalTarget(fs, call'.path)
          IN  /\ ~Exists(fs, t) => (ret' = NoSuchFileError(call'.path) /\ fs' = fs)
              /\ IsDir(fs, t) => (ret' = IsADirectoryText(call'.path) /\ fs' = fs)]_vars

\* read_file("d/a") where /w/d/a does not exist, and /w/d does not either
C16_Witness ==
  /\ call.op = "read_file"
  /\ call.path = <<"d", "/", "a">>
  /\ ret = NoSuchFileError(<<"d", "/", "a">>)
  /\ ~LExists(fs, <<"w", "d">>)

\* read_file("d") where /w/d is a directory
C16_WitnessDirectory ==
  /\ call.op = "read_file"
  /\ call.path = <<"d">>
  /\ ret = IsADirectoryText(<<"d">>)
  /\ fs[<<"w", "d">>] = Dir

\* The directory list_files was called on exists, inside the workspace, and
\* has no entries
ListedDirectoryIsEmpty ==
  /\ ~IsOutside(fs, call.path)
  /\ IsDir(fs, CanonicalTarget(fs, call.path))
  /\ Children(fs, CanonicalTarget(fs, call.path)) = {}

\* C17: list_files never returns the empty string; it returns the 'directory
\* is empty' text for an existing directory without entries (unless the
\* operating system refused the listing), and for nothing else.
C17_EmptyDirectoryMessage ==
  call.op = "list_files" =>
    /\ ret.kind = "return" => ret.value # <<>>
    /\ ret = Return(<<DIR_EMPTY>>) => ListedDirectoryIsEmpty
    /\ (ListedDirectoryIsEmpty /\ ret.kind = "return" /\ ~IsPrefix(<<LIST_FAILED>>, ret.value))
         => ret = Return(<<DIR_EMPTY>>)

\* list_files("d") on the empty directory /w/d
C17_Witness ==
  /\ call.op = "list_files"
  /\ call.path = <<"d">>
  /\ ret = Return(<<DIR_EMPTY>>)
  /\ LExists(fs, <<"w", "d">>)
  /\ fs[<<"w", "d">>] = Dir
  /\ Children(fs, <<"w", "d">>) = {}

\* C18: when construction has returned, workspace is a canonical absolute path
\* and its directory exists; and no step of any public operation changes any
\* field of the Config.
C18_ConfigNeverChanges ==
  /\ config.workspace = Resolve(fs, config.workspace)
  /\ IsDir(fs, config.workspace)
  /\ [][config' = config]_vars

\* File operations have written under the workspace and install_package has
\* returned; the Config is one of those construction yields
C18_Witness ==
  /\ call.op = "install_package"
  /\ exec.pc = "returned"
  /\ LExists(fs, <<"w", "d", "a">>)
  /\ config \in Configs

\* What a file operation called with these arguments does to filesystem f and
\* returns, the operating system refusing nothing and iterdir() yielding
\* items: a function of the configuration, the filesystem and the arguments
OutcomeIn(f, op, path, content, items) ==
  LET r == CASE op = "make_new_dir" -> MakeNewDirBody(f, path, FALSE)
             [] op = "write_in_file" -> WriteInFileBody(f, path, content, FALSE)
             [] op = "append_to_file" -> AppendToFileBody(f, path, content, FALSE)
             [] op = "read_file" -> ReadFileBody(f, path, FALSE)
             [] op = "list_files" -> ListFilesBody(f, path, items, FALSE)
      failed == CASE op = "make_new_dir" -> MKDIR_FAILED
                  [] op = "write_in_file" -> WRITE_FAILED
                  [] op = "append_to_file" -> APPEND_FAILED
                  [] op = "read_file" -> READ_FAILED
                  [] op = "list_files" -> LIST_FAILED
  IN  [fs |-> r.fs, ret |-> Catch(r, failed)]

WriteSucceeded(t) ==
  threads[t].pc = "returned" /\ threads[t].ret = Return(WrittenText(threads[t].target))

\* C20: when the write_in_file calls of two threads have both returned
\* success, then, if they wrote the same file, the file holds the encoding of
\* the content of one of the two calls, and if they wrote different files,
\* each file holds the encoding of its own call's content.
C20_ConcurrentWritesNeverMix ==
  (WriteSucceeded("t1") /\ WriteSucceeded("t2"))
    => IF threads["t1"].target = threads["t2"].target
         THEN FileBytes(fs, threads["t1"].target)
                \in {Encode(threads["t1"].content), Encode(threads["t2"].content)}
         ELSE \A t \in Threads : FileBytes(fs, threads[t].target) = Encode(threads[t].content)

\* C21 (original statement): after load, set, update or reset has returned
\* normally, the JSON document stored at config_path decodes to exactly the
\* manager's in-memory config.
C21_SavedDocumentIsConfig ==
  (manager.op \in {"load", "set", "update", "reset"} /\ manager.ret.kind = "return")
    => /\ config_file.kind = "json"
       /\ FromJson(config_file.doc) = manager.config

\* C22 (original statement): load on a file that is absent or is not
\* parseable JSON leaves the defaults in memory and writes them to
\* config_path; load on parseable JSON leaves exactly the parsed document in
\* memory and does not rewrite the file.
C22_LoadFallsBackToDefaults ==
  [][manager'.op = "load" =>
       IF config_file.kind = "json"
         THEN /\ manager'.config = FromJson(config_file.doc)
              /\ config_file' = config_file
         ELSE /\ manager'.config = DEFAULT_CONFIG
              /\ config_file' = JsonFile(ToJson(DEFAULT_CONFIG))]_vars

\* C23 (original statement): validate never raises and never modifies the
\* config; it returns (len(errors) == 0, errors) for every configuration
\* load, set and update can leave.
C23_ValidateNeverRaises ==
  [][manager'.op = "validate" =>
       /\ manager'.config = manager.config
       /\ config_file' = config_file
       /\ manager'.ret.kind = "return"
       /\ manager'.ret.value.valid = (manager'.ret.value.errors = <<>>)]_vars

C26_NothingOutsideChanges ==
  \A p \in DOMAIN fs \cup DOMAIN InitFs :
    ~IsPrefix(WORKSPACE, p) => /\ p \in DOMAIN fs
                               /\ p \in DOMAIN InitFs
                               /\ fs[p] = InitFs[p]

\* C27 (original statement): given the same answers, Interface.main does
\* what main() does and stops when main() stops, and its task-type submenu
\* offers the task-type choices.
C27_FrontEndsEquivalent ==
  /\ ui.interface.offered # <<>> => ui.interface.offered = TaskTypeChoices
  /\ ui.console.answer = ui.interface.answer
       => /\ ui.interface.did = ui.console.did
          /\ ui.interface.running = ui.console.running

\* C28 (original statement): each front-end's task counter starts at 0 and
\* moves only in a loop iteration that executed a task (execute new task, a
\* task type other than return, a non-empty description), by exactly 1;
\* constructing Interface() again leaves the counter alone.
C28_CounterCountsExecutedTasks ==
  /\ ui.console.task_count = 0
  /\ ui.interface.task_count = 0
  /\ [][\A f \in {"console", "interface"} :
          LET a == ui'[f].answer
              iterated == ui'[f] # ui[f] /\ ui'.last = (IF f = "console" THEN "main" ELSE "Interface.main")
              executed == /\ iterated
                          /\ Len(a) = 3
                          /\ a[1] = PyStr("execute new task")
                          /\ a[2] \notin {PyNone, PyStr("return")}
                          /\ a[3] \notin {PyNone, PyStr("")}
          IN  ui'[f].task_count = ui[f].task_count + (IF executed THEN 1 ELSE 0)]_vars

====
